---- MODULE Spec2Model ----
(***************************************************************************)
(* A model of the JUnit-to-Xray import tool (src/tools/test_script.py).   *)
(*                                                                         *)
(* Python strings that the code splits, slices, lower-cases or searches    *)
(* are sequences of one-character strings, so that those operations are    *)
(* computed and not assumed.  Opaque identifiers (issue keys, URLs) are    *)
(* TLA+ strings.                                                           *)
(***************************************************************************)
EXTENDS Integers, Sequences, FiniteSets, TLC

VARIABLES
    testcase,      \* SpecCase: the <testcase> element handed to _parse_testcase
    result,        \* SpecCase: what _parse_testcase returned
    casePc,        \* SpecCase: "call" before the call, "returned" after it
    agg,           \* SpecAdd: one AggregatedResult
    junit_file,    \* Spec: the file JUnitParser.parse is given
    mapping,       \* Spec: ResultAggregator.mapping
    pc,            \* Spec: position in parse / aggregate
    results,       \* Spec: the ParsedResults parse returned
    aggregates,    \* Spec: aggregate's dict, as its items in insertion order
    unmatched,     \* Spec: aggregate's set of unmatched names
    idx,           \* Spec: number of results.tests the aggregate loop has consumed
    ret,           \* Spec: aggregate's return value (matched, unmatched list)
    env,           \* SpecMain: os.environ (JIRA_URL, JIRA_TOKEN)
    args,          \* SpecMain: the parsed command line
    cache,         \* SpecMain: the name -> key table of the mapping cache file
    mainPc,        \* SpecMain: position in main
    execution_key, \* SpecMain: main's local execution_key ("unbound" before assignment)
    calls,         \* SpecMain: the component and remote calls main has made, in order
    info_file,     \* SpecMain: xray_execution_info.json
    exit,          \* SpecMain: the process's exit status ("running" until main ends)
    mc_file,       \* SpecCache: the cache file of a MappingCache
    mc_loaded,     \* SpecCache: what the last MappingCache.load did
    mc_saved,      \* SpecCache: the mapping the file was last written from by save
    mc_pc,         \* SpecCache: the last call made ("none", "saved", "loaded")
    up_args,       \* SpecUpload: the parsed command line of the upload tool
    up_dir,        \* SpecUpload: what is at --dir-path
    up_pc,         \* SpecUpload: position in the upload tool's main
    versioning,    \* SpecUpload: main's local versioning
    files,         \* SpecUpload: main's local files, a list of file names
    up_i,          \* SpecUpload: how many of files the upload loop has been through
    client,        \* SpecUpload: S3Client.client ("None", "connected", "closed")
    existed,       \* SpecUpload: Bucket._existed
    s3_calls,      \* SpecUpload: the calls made on the boto3 client, in order
    raised         \* SpecUpload: the exception that ended main ("None": none)

caseVars == <<testcase, result, casePc>>
addVars == <<agg>>
pipeVars == <<junit_file, mapping, pc, results, aggregates, unmatched, idx, ret>>
mainVars == <<env, args, cache, mainPc, execution_key, calls, info_file, exit>>
cacheVars == <<mc_file, mc_loaded, mc_saved, mc_pc>>
upVars == <<up_args, up_dir, up_pc, versioning, files, up_i, client, existed, s3_calls, raised>>
vars == <<caseVars, addVars, pipeVars, mainVars, cacheVars, upVars>>

----------------------------------------------------------------------------
(* Bounds of the model *)

MaxKids == 2          \* children of the testcase of SpecCase
MaxVariations == 4    \* variations added to one AggregatedResult in SpecAdd
MaxBelow == 3         \* elements below the root of a document of Spec
MaxMainBelow == 1     \* elements below the root of a document of SpecMain

----------------------------------------------------------------------------
(* Status constants: class Status *)

PASS == "PASS"
FAIL == "FAIL"
TODO == "TODO"
CONDITIONALPASS == "CONDITIONALPASS"
Statuses == {PASS, FAIL, TODO, CONDITIONALPASS}

----------------------------------------------------------------------------
(* String operations the code uses *)

\* s[:n]
Slice(s, n) == SubSeq(s, 1, IF Len(s) < n THEN Len(s) ELSE n)

\* s.split(c)[0]: the part of s before the first c, all of s when c is absent
SplitFirst(s, c) ==
    IF \E i \in 1..Len(s) : s[i] = c
    THEN LET first == CHOOSE i \in 1..Len(s) :
                          s[i] = c /\ \A j \in 1..(i - 1) : s[j] # c
         IN SubSeq(s, 1, first - 1)
    ELSE s

LowerChar(c) ==
    CASE c = "X" -> "x" [] c = "F" -> "f" [] c = "A" -> "a" [] c = "I" -> "i"
      [] c = "L" -> "l" [] c = "S" -> "s" [] c = "K" -> "k" [] c = "P" -> "p"
      [] OTHER -> c

\* s.lower()
Lower(s) == [i \in 1..Len(s) |-> LowerChar(s[i])]

\* sub in s
Contains(s, sub) ==
    \E i \in 0..(Len(s) - Len(sub)) : SubSeq(s, i + 1, i + Len(sub)) = sub

S_xfail == <<"x", "f", "a", "i", "l">>
S_skip == <<"s", "k", "i", "p">>
S_XFAIL_prefix == <<"X", "F", "A", "I", "L", ":", " ">>
S_Skipped == <<"S", "k", "i", "p", "p", "e", "d">>
S_nlnl == <<"\n", "\n">>

----------------------------------------------------------------------------
(* XML elements.  An element is [tag, name, time, type, message, text, kids]; *)
(* kids are the direct children in document order.                           *)

Element(tag, name, time, type, message, text, kids) ==
    [tag |-> tag, name |-> name, time |-> time, type |-> type,
     message |-> message, text |-> text, kids |-> kids]

Child(tag, type, message, text) == Element(tag, <<>>, 0, type, message, text, <<>>)

\* Mutant of Find: the last child with the tag instead of the first
FindLast(el, tag) ==
    IF \E i \in 1..Len(el.kids) : el.kids[i].tag = tag
    THEN CHOOSE i \in 1..Len(el.kids) :
             el.kids[i].tag = tag /\ \A j \in (i + 1)..Len(el.kids) : el.kids[j].tag # tag
    ELSE 0

\* Element.find(tag): the index of the first direct child with that tag, 0 for None
Find(el, tag) ==
    IF \E i \in 1..Len(el.kids) : el.kids[i].tag = tag
    THEN CHOOSE i \in 1..Len(el.kids) :
             el.kids[i].tag = tag /\ \A j \in 1..(i - 1) : el.kids[j].tag # tag
    ELSE 0

MaxText == 2000

\* JUnitParser._extract_message
ExtractMessage(element) ==
    IF element.text # <<>>
    THEN element.message \o S_nlnl \o Slice(element.text, MaxText)
    ELSE element.message

TestResult(name, full_name, status, comment, duration) ==
    [name |-> name, full_name |-> full_name, status |-> status,
     comment |-> comment, duration |-> duration]

\* JUnitParser._parse_testcase
ParseTestcase(tc) ==
    LET full_name == tc.name
        duration == tc.time
        clean_name == SplitFirst(SplitFirst(full_name, " "), "[")
        failure == Find(tc, "failure")
        error == Find(tc, "error")
        skipped == Find(tc, "skipped")
    IN  IF failure # 0
        THEN TestResult(clean_name, full_name, FAIL,
                        ExtractMessage(tc.kids[failure]), duration)
        ELSE IF error # 0
        THEN TestResult(clean_name, full_name, FAIL,
                        ExtractMessage(tc.kids[error]), duration)
        ELSE IF skipped # 0
        THEN LET skip_type == Lower(tc.kids[skipped].type)
                 skip_msg == tc.kids[skipped].message
             IN  IF Contains(skip_type, S_xfail) /\ ~Contains(skip_type, S_skip)
                 THEN TestResult(clean_name, full_name, CONDITIONALPASS,
                                 S_XFAIL_prefix \o skip_msg, duration)
                 ELSE TestResult(clean_name, full_name, TODO,
                                 IF skip_msg # <<>> THEN skip_msg ELSE S_Skipped,
                                 duration)
        ELSE TestResult(clean_name, full_name, PASS, <<>>, duration)

----------------------------------------------------------------------------
(* Inputs *)

N_a == <<"a">>
N_a1 == <<"a", "[", "1", "]">>
N_bx == <<"b", " ", "x">>
FullNames == {N_a, N_a1, N_bx}

\* The children a testcase of SpecCase is built from
ChildKinds ==
    { Child("failure", <<>>, <<"m">>, <<"t">>),
      Child("failure", <<>>, <<>>, <<>>),
      Child("error", <<>>, <<"e">>, <<>>),
      Child("skipped", S_xfail, <<"r">>, <<>>),
      Child("skipped", <<"X", "F", "a", "i", "l">>, <<>>, <<>>),
      Child("skipped", S_skip, <<>>, <<>>),
      Child("skipped", S_skip \o S_xfail, <<"r">>, <<>>),
      Child("skipped", <<>>, <<"r">>, <<>>),
      Child("system-out", <<>>, <<>>, <<"o">>) }

SeqsUpTo(S, n) == UNION {[1..k -> S] : k \in 0..n}

Testcases ==
    { Element("testcase", name, 1, <<>>, <<>>, <<>>, kids) :
        name \in FullNames, kids \in SeqsUpTo(ChildKinds, MaxKids) }

NoResult == TestResult(<<>>, <<>>, "None", <<>>, 0)

----------------------------------------------------------------------------
(* AggregatedResult *)

AggregatedResult(test_key) ==
    [test_key |-> test_key, status |-> PASS, variations |-> <<>>,
     total_duration |-> 0]

\* Mutant of NextStatus: the guard against an existing FAIL is missing
NextStatusTodoWins(status, new) ==
    IF new = FAIL THEN FAIL
    ELSE IF new = TODO THEN TODO
    ELSE IF new = CONDITIONALPASS /\ status = PASS THEN CONDITIONALPASS
    ELSE status

\* The status update of AggregatedResult.add_variation
NextStatus(status, new) ==
    IF new = FAIL THEN FAIL
    ELSE IF new = TODO /\ status \notin {FAIL} THEN TODO
    ELSE IF new = CONDITIONALPASS /\ status = PASS THEN CONDITIONALPASS
    ELSE status

\* Mutant of AddVariation: the variation replaces the list instead of joining it
AddVariationKeepLast(a, r) ==
    [a EXCEPT !.variations = <<r>>,
              !.total_duration = @ + r.duration,
              !.status = IF r.status = FAIL THEN FAIL
                         ELSE IF r.status = TODO /\ @ \notin {FAIL} THEN TODO
                         ELSE IF r.status = CONDITIONALPASS /\ @ = PASS
                         THEN CONDITIONALPASS
                         ELSE @]

\* AggregatedResult.add_variation
AddVariation(a, r) ==
    [a EXCEPT !.variations = Append(@, r),
              !.total_duration = @ + r.duration,
              !.status = NextStatus(@, r.status)]

MaxDetails == 5
MaxDetailLen == 1000

StatusIcon(status) ==
    CASE status = PASS -> "[PASS]"
      [] status = FAIL -> "[FAIL]"
      [] status = TODO -> "[SKIP]"
      [] status = CONDITIONALPASS -> "[XFAIL]"
      [] OTHER -> "?"

\* AggregatedResult.build_comment: the comment's lines, kept apart instead of
\* joined: the count of the heading (0: no heading), one line per variation,
\* and the failure details
BuildComment(a) ==
    LET failed == SelectSeq(a.variations,
                            LAMBDA v : v.status = FAIL /\ v.comment # <<>>)
        shown == Slice(failed, MaxDetails)
    IN  [heading |-> IF Len(a.variations) > 1 THEN Len(a.variations) ELSE 0,
         lines |-> [i \in 1..Len(a.variations) |->
                      [icon |-> StatusIcon(a.variations[i].status),
                       full_name |-> a.variations[i].full_name,
                       status |-> a.variations[i].status,
                       duration |-> a.variations[i].duration]],
         details |-> [i \in 1..Len(shown) |->
                        [full_name |-> shown[i].full_name,
                         comment |-> Slice(shown[i].comment, MaxDetailLen)]]]

\* AggregatedResult.to_dict
ToDict(a) ==
    [test_key |-> a.test_key, status |-> a.status, comment |-> BuildComment(a),
     duration |-> a.total_duration]

----------------------------------------------------------------------------
(* JUnitParser.parse *)

ParsedResults(total, passed, failed, skipped, tests) ==
    [total |-> total, passed |-> passed, failed |-> failed,
     skipped |-> skipped, tests |-> tests]

EmptyResults == ParsedResults(0, 0, 0, 0, <<>>)

\* root.findall(".//testcase"): the testcase elements below the root, at any
\* depth, in document order; the root itself is not among them
FindAllTestcases(file) == SelectSeq(file.below, LAMBDA e : e.tag = "testcase")

\* Mutant of CountTestcase: only PASS counts as passed, CONDITIONALPASS falls
\* through to skipped
CountTestcasePassOnly(res, tc) ==
    LET r == ParseTestcase(tc)
        counted == [res EXCEPT !.tests = Append(@, r), !.total = @ + 1]
    IN  IF r.status \in {PASS}
        THEN [counted EXCEPT !.passed = @ + 1]
        ELSE IF r.status = FAIL
        THEN [counted EXCEPT !.failed = @ + 1]
        ELSE [counted EXCEPT !.skipped = @ + 1]

\* One pass of the loop of parse over a testcase
CountTestcase(res, tc) ==
    LET r == ParseTestcase(tc)
        counted == [res EXCEPT !.tests = Append(@, r), !.total = @ + 1]
    IN  IF r.status \in {PASS, CONDITIONALPASS}
        THEN [counted EXCEPT !.passed = @ + 1]
        ELSE IF r.status = FAIL
        THEN [counted EXCEPT !.failed = @ + 1]
        ELSE [counted EXCEPT !.skipped = @ + 1]

RECURSIVE ParseLoop(_, _)
ParseLoop(cases, res) ==
    IF cases = <<>> THEN res
    ELSE ParseLoop(Tail(cases), CountTestcase(res, Head(cases)))

\* JUnitParser.parse: what it raises ("None": nothing) and what it returns
Parse(file) ==
    IF ~file.exists
    THEN [raised |-> "FileNotFoundError", results |-> EmptyResults]
    ELSE IF ~file.wellformed
    THEN [raised |-> "ParseError", results |-> EmptyResults]
    ELSE [raised |-> "None",
          results |-> ParseLoop(FindAllTestcases(file), EmptyResults)]

----------------------------------------------------------------------------
(* Documents and mappings of Spec *)

Plain(tag) == Element(tag, <<>>, 0, <<>>, <<>>, <<>>, <<>>)

Case(name, kids) == Element("testcase", name, 1, <<>>, <<>>, <<>>, kids)

K_fail == <<Child("failure", <<>>, <<"m">>, <<"t">>)>>
K_xfail == <<Child("skipped", S_xfail, <<"r">>, <<>>)>>
K_skip == <<Child("skipped", S_skip, <<>>, <<>>)>>

DocKids == {<<>>, K_fail, K_xfail, K_skip}

\* What may stand below the root: testcases and the suites that nest them
DocElements ==
    { Case(N_a, kids) : kids \in DocKids }
    \cup { Case(N_a1, <<>>), Case(N_a1, K_fail), Case(N_bx, <<>>), Case(N_bx, K_skip),
           Plain("testsuite") }

Roots == {Plain("testsuites"), Case(N_a, <<>>)}

File(exists, wellformed, root, below) ==
    [exists |-> exists, wellformed |-> wellformed, root |-> root, below |-> below]

Files ==
    { File(TRUE, TRUE, root, below) :
        root \in Roots, below \in SeqsUpTo(DocElements, MaxBelow) }
    \cup { File(FALSE, FALSE, Plain("testsuites"), <<>>),
           File(TRUE, FALSE, Plain("testsuites"), <<>>) }

CleanNames == {<<"a">>, <<"b">>}
Keys == {"K-1", "K-2"}

\* Every name -> key table over CleanNames, injective or not
Mappings == UNION {[D -> Keys] : D \in SUBSET CleanNames}

----------------------------------------------------------------------------
(* ResultAggregator.aggregate *)

\* The position of name in the dict's items, 0 when it is no key of the dict
IndexOf(items, name) ==
    IF \E i \in 1..Len(items) : items[i].name = name
    THEN CHOOSE i \in 1..Len(items) : items[i].name = name
    ELSE 0

\* Mutant of SetDefault: the membership test is missing
SetDefaultAlways(items, name, test_key) ==
    Append(items, [name |-> name, agg |-> AggregatedResult(test_key)])

\* Mutant of SetDefault: a new key goes to the front of the dict
SetDefaultFront(items, name, test_key) ==
    IF IndexOf(items, name) = 0
    THEN <<[name |-> name, agg |-> AggregatedResult(test_key)]>> \o items
    ELSE items

\* aggregates[test.name] = AggregatedResult(...) when the key is new
SetDefault(items, name, test_key) ==
    IF IndexOf(items, name) = 0
    THEN Append(items, [name |-> name, agg |-> AggregatedResult(test_key)])
    ELSE items

\* aggregates[test.name].add_variation(test)
AddTo(items, test) ==
    [items EXCEPT ![IndexOf(items, test.name)].agg = AddVariation(@, test)]

\* One pass of the loop of aggregate: st is [aggregates, unmatched]
AggregateOne(st, test, m) ==
    IF test.name \notin DOMAIN m
    THEN [st EXCEPT !.unmatched = @ \cup {test.name}]
    ELSE [st EXCEPT !.aggregates = AddTo(SetDefault(@, test.name, m[test.name]), test)]

RECURSIVE AggregateLoop(_, _, _)
AggregateLoop(tests, st, m) ==
    IF tests = <<>> THEN st
    ELSE AggregateLoop(Tail(tests), AggregateOne(st, Head(tests), m), m)

\* list(a_set): the set's members in some order
ListsOf(S) ==
    { s \in [1..Cardinality(S) -> S] : \A i, j \in 1..Cardinality(S) :
                                           s[i] = s[j] => i = j }

NoRet == [matched |-> <<>>, unmatched |-> <<>>]

IdleCase ==
    /\ testcase = Plain("testcase")
    /\ result = NoResult
    /\ casePc = "idle"

IdleAdd == agg = AggregatedResult("None")

IdlePipe ==
    /\ junit_file = File(FALSE, FALSE, Plain("testsuites"), <<>>)
    /\ mapping = <<>>
    /\ pc = "idle"
    /\ results = EmptyResults
    /\ aggregates = <<>>
    /\ unmatched = {}
    /\ idx = 0
    /\ ret = NoRet

----------------------------------------------------------------------------
(* What the import tool's main works on *)

\* The time of a datetime.now() call
Now == "<now>"

\* Python truthiness of an optional string
Truthy(x) == x \notin {"None", ""}

\* ReportGenerator.create_summary: the parts that " - " joins
CreateSummary(environment, version, custom) ==
    IF Truthy(custom) THEN <<custom>>
    ELSE <<"Automated Test Run">>
         \o (IF Truthy(environment) THEN <<environment>> ELSE <<>>)
         \o (IF Truthy(version) THEN <<version>> ELSE <<>>)
         \o <<Now>>

\* The info dict of ReportGenerator.save_execution_info
ExecutionInfo(key, jira_url, environment, version, res, matched, unmatched_count) ==
    [execution_key |-> key,
     execution_url |-> <<jira_url, "/browse/", key>>,
     timestamp |-> Now,
     environment |-> environment,
     version |-> version,
     results |-> [total |-> res.total, passed |-> res.passed, failed |-> res.failed,
                  skipped |-> res.skipped, matched |-> matched,
                  unmatched |-> unmatched_count]]

NoInfo ==
    [written |-> FALSE,
     info |-> ExecutionInfo("None", "None", "None", "None", EmptyResults, 0, 0)]

Call(fn, arg) == [fn |-> fn, arg |-> arg]

EnvValues == {"None", "", "https://jira"}
TokenValues == {"None", "", "token"}
ExecutionKeys == {"None", "", "EX-1"}

MainFiles == {f \in Files : Len(f.below) <= MaxMainBelow}
MainMappings ==
    { m \in Mappings : m = <<>> \/ (<<"a">> \in DOMAIN m /\ m[<<"a">>] = "K-1"
                                    /\ \A n \in DOMAIN m : n # <<"a">> => m[n] = "K-2") }

Args(junit_xml, key, dry_run) ==
    [junit_xml |-> junit_xml, execution_key |-> key, dry_run |-> dry_run,
     test_environment |-> "qa7", version |-> "None", execution_summary |-> "None"]

IdleMain ==
    /\ env = [JIRA_URL |-> "None", JIRA_TOKEN |-> "None"]
    /\ args = Args(File(FALSE, FALSE, Plain("testsuites"), <<>>), "None", FALSE)
    /\ cache = <<>>
    /\ mainPc = "idle"
    /\ execution_key = "unbound"
    /\ calls = <<>>
    /\ info_file = NoInfo
    /\ exit = "running"

----------------------------------------------------------------------------
(* MappingCache: the cache file, json.dump and json.load *)

\* The text of a JSON file as its tokens: punctuation, null and string
\* literals; whitespace carries no meaning
\* A literal's value is the tuple of its characters; an issue key is kept
\* whole, as a tuple of one element
Punct(t) == [t |-> t, v |-> <<>>]
Str(v) == [t |-> "str", v |-> v]

\* A file at the cache path: whether it exists, whether it can be opened for
\* reading (a directory or a file without permission cannot), whether its
\* bytes decode as UTF-8, and the tokens of its text
CacheFile(exists, readable, utf8, tokens) ==
    [exists |-> exists, readable |-> readable, utf8 |-> utf8, tokens |-> tokens]

MissingCacheFile == CacheFile(FALSE, FALSE, FALSE, <<>>)

\* The tokens json.dump writes for the items of a dict, taken in the order
\* the names are listed in
RECURSIVE DumpItems(_, _)
DumpItems(m, order) ==
    IF order = <<>> THEN <<>>
    ELSE <<Str(Head(order)), Punct(":"), Str(<<m[Head(order)]>>)>>
         \o (IF Len(order) > 1 THEN <<Punct(",")>> ELSE <<>>)
         \o DumpItems(m, Tail(order))

\* json.dump(mapping, f, indent=2)
Dump(m, order) == <<Punct("{")>> \o DumpItems(m, order) \o <<Punct("}")>>

\* Whether tokens are the items of a JSON object of strings: str : str
\* repeated, with commas between
IsItems(tokens) ==
    /\ Len(tokens) % 4 = 3
    /\ \A i \in 1..Len(tokens) :
           tokens[i].t = (CASE i % 4 = 1 -> "str" [] i % 4 = 2 -> ":"
                            [] i % 4 = 3 -> "str" [] OTHER -> ",")

IsObjectText(tokens) ==
    /\ Len(tokens) >= 2
    /\ tokens[1].t = "{"
    /\ tokens[Len(tokens)].t = "}"
    /\ Len(tokens) = 2 \/ IsItems(SubSeq(tokens, 2, Len(tokens) - 1))

\* The dict of a JSON object's tokens; of a repeated name the last value stays
ObjectOf(tokens) ==
    LET n == (Len(tokens) - 1) \div 4
        nameAt(k) == tokens[4 * k - 2].v
        names == {nameAt(k) : k \in 1..n}
    IN  [name \in names |->
            LET last == CHOOSE k \in 1..n :
                            nameAt(k) = name /\ \A j \in (k + 1)..n : nameAt(j) # name
            IN  tokens[4 * last].v[1]]

Loaded(raised_, kind, value) == [raised |-> raised_, kind |-> kind, value |-> value]

\* json.load(f): the value of the text, or the exception it raises
JsonLoad(file) ==
    IF ~file.utf8 THEN Loaded("UnicodeDecodeError", "None", <<>>)
    ELSE IF IsObjectText(file.tokens)
    THEN Loaded("None", "dict", ObjectOf(file.tokens))
    ELSE IF Len(file.tokens) = 2 /\ file.tokens[1].t = "[" /\ file.tokens[2].t = "]"
    THEN Loaded("None", "list", <<>>)
    ELSE IF Len(file.tokens) = 1 /\ file.tokens[1].t = "null"
    THEN Loaded("None", "NoneType", <<>>)
    ELSE Loaded("JSONDecodeError", "None", <<>>)

\* MappingCache.load: what it returns (kind and value) or raises
CacheLoadResult(file) ==
    IF ~file.exists THEN Loaded("None", "dict", <<>>)
    ELSE IF ~file.readable THEN Loaded("None", "dict", <<>>)
    ELSE LET got == JsonLoad(file)
         IN  IF got.raised = "JSONDecodeError" THEN Loaded("None", "dict", <<>>)
             ELSE got

NotLoaded == Loaded("None", "None", <<>>)
NotSaved == [by_save |-> FALSE, mapping |-> <<>>]

\* The cache files a run may find: none, an unreadable one, and texts that no
\* save of this tool wrote
FoundCacheFiles ==
    { MissingCacheFile,
      CacheFile(TRUE, FALSE, TRUE, <<>>),
      CacheFile(TRUE, TRUE, TRUE, <<>>),
      CacheFile(TRUE, TRUE, TRUE, <<Punct("{"), Str(N_a), Punct(":"), Str(<<"K-1">>)>>),
      CacheFile(TRUE, TRUE, TRUE, <<Punct("{"), Str(N_a), Punct(":"), Str(<<"K-1">>),
                                    Punct(","), Punct("}")>>),
      CacheFile(TRUE, TRUE, TRUE, <<Punct("["), Punct("]")>>),
      CacheFile(TRUE, TRUE, TRUE, <<Punct("null")>>),
      CacheFile(TRUE, TRUE, FALSE, <<Punct("{"), Punct("}")>>) }

IdleCache ==
    /\ mc_file = MissingCacheFile
    /\ mc_loaded = NotLoaded
    /\ mc_saved = NotSaved
    /\ mc_pc = "idle"

----------------------------------------------------------------------------
(* What the upload tool's main works on *)

\* An entry of a directory: its name and whether it is a regular file
Entry(name, is_file) == [name |-> name, is_file |-> is_file]

DirEntries ==
    { Entry(".DS_Store", TRUE), Entry("a.mp4", TRUE), Entry("b.mp4", TRUE),
      Entry("sub", FALSE) }

\* What is at --dir-path: nothing, a regular file, or a directory
Dirs ==
    { [kind |-> "missing", entries |-> {}], [kind |-> "file", entries |-> {}] }
    \cup { [kind |-> "dir", entries |-> es] : es \in SUBSET DirEntries }

\* --lifecycle DAYS: absent (None) or an int
NoLifecycle == [given |-> FALSE, days |-> 0]
Lifecycles == { NoLifecycle } \cup { [given |-> TRUE, days |-> d] : d \in {-1, 0, 1} }

\* --bucket-name values, as tuples of characters
BucketNames == { <<"a", "b">>, <<"a", "b", "c">> }

\* What parse_args returns: argparse lets only movie and stream through
UploadArgs ==
    [ file_type : {"movie", "stream"},
      bucket_name : BucketNames,
      prefix : {"", "p/"},
      versioning : BOOLEAN,
      lifecycle : Lifecycles ]

\* Python's order of str, for the names at hand
NameOrder == <<".DS_Store", "a.mp4", "b.mp4", "sub">>

\* sorted by name: the names of a list in the order of str
SortedByName(list) ==
    LET has(n) == \E i \in 1..Len(list) : list[i] = n
    IN  SelectSeq(NameOrder, has)

\* get_all_files_from_dir: the set of the regular files not named .DS_Store
GetAllFilesFromDir(d) ==
    { e.name : e \in { x \in d.entries : x.is_file /\ x.name # ".DS_Store" } }

\* build_metadata (created_at is left out: nothing reads it)
BuildMetadata(prefix, file_count) ==
    [dataset |-> prefix, file_count |-> file_count, owner |-> "qa"]

\* build_index, after its sort of files
BuildIndex(prefix, sorted) == [dataset |-> prefix, files |-> sorted]

\* A call made on the boto3 client, and how it ended ("ok" or an error)
S3Call(op, arg, outcome) == [op |-> op, arg |-> arg, outcome |-> outcome]

\* How a call on the boto3 client may end
Outcomes == {"ok", "ClientError"}

\* How create_bucket may end: well, or with a ClientError of some code
\* ("NoCode": a response without an Error code)
CreateOutcomes == {"ok", "BucketAlreadyOwnedByYou", "BucketAlreadyExists", "NoCode"}

\* Mutant of BucketCreate: every ClientError is taken for the benign one
BucketCreateSwallowsAll(outcome) ==
    IF outcome = "ok" THEN [raised |-> "None", existed |-> FALSE]
    ELSE [raised |-> "None", existed |-> TRUE]

\* Bucket.create: what it raises and what _existed is afterwards
BucketCreate(outcome) ==
    IF outcome = "ok" THEN [raised |-> "None", existed |-> FALSE]
    ELSE IF outcome = "BucketAlreadyOwnedByYou"
    THEN [raised |-> "None", existed |-> TRUE]
    ELSE [raised |-> "ClientError", existed |-> FALSE]

\* Bucket.set_lifecycle: the rule it puts
LifecycleRule(policy_name, expiration_days, noncurrent) ==
    [ ID |-> policy_name, Status |-> "Enabled", Days |-> expiration_days,
      Noncurrent |-> IF noncurrent.given /\ noncurrent.days # 0
                     THEN [present |-> TRUE, days |-> noncurrent.days]
                     ELSE [present |-> FALSE, days |-> 0] ]

\* Mutant of Validate: a bucket name of 2 characters passes
ValidateShortName(a, d) ==
    IF d.kind = "missing" THEN "FileNotFoundError"
    ELSE IF Len(a.bucket_name) < 2 THEN "ValueError"
    ELSE IF a.lifecycle.given /\ a.lifecycle.days <= 0 THEN "ValueError"
    ELSE "None"

\* The checks at the head of main: the exception raised, "None" for none
Validate(a, d) ==
    IF d.kind = "missing" THEN "FileNotFoundError"
    ELSE IF a.file_type \notin {"movie", "stream"} THEN "ValueError"
    ELSE IF Len(a.bucket_name) < 3 THEN "ValueError"
    ELSE IF a.lifecycle.given /\ a.lifecycle.days <= 0 THEN "ValueError"
    ELSE "None"

IdleUpload ==
    /\ up_args = [file_type |-> "movie", bucket_name |-> <<"a", "b", "c">>,
                  prefix |-> "", versioning |-> FALSE, lifecycle |-> NoLifecycle]
    /\ up_dir = [kind |-> "missing", entries |-> {}]
    /\ up_pc = "idle"
    /\ versioning = FALSE
    /\ files = <<>>
    /\ up_i = 0
    /\ client = "None"
    /\ existed = FALSE
    /\ s3_calls = <<>>
    /\ raised = "None"

----------------------------------------------------------------------------
(* SpecCase: one call of JUnitParser._parse_testcase *)

InitCase ==
    /\ testcase \in Testcases
    /\ result = NoResult
    /\ casePc = "call"
    /\ IdleAdd
    /\ IdlePipe
    /\ IdleMain
    /\ IdleCache
    /\ IdleUpload

CallParseTestcase ==
    /\ casePc = "call"
    /\ result' = ParseTestcase(testcase)
    /\ casePc' = "returned"
    /\ UNCHANGED <<testcase, addVars, pipeVars, mainVars, cacheVars, upVars>>

NextCase == CallParseTestcase

SpecCase == InitCase /\ [][NextCase]_vars

----------------------------------------------------------------------------
(* SpecAdd: variations added to one AggregatedResult *)

\* The results variations are drawn from: what _parse_testcase makes of the
\* elements of a document
SampleResults == {ParseTestcase(Case(name, kids)) : name \in FullNames, kids \in DocKids}

InitAdd ==
    /\ agg = AggregatedResult("K-1")
    /\ IdleCase
    /\ IdlePipe
    /\ IdleMain
    /\ IdleCache
    /\ IdleUpload

CallAddVariation ==
    /\ Len(agg.variations) < MaxVariations
    /\ \E r \in SampleResults : agg' = AddVariation(agg, r)
    /\ UNCHANGED <<caseVars, pipeVars, mainVars, cacheVars, upVars>>

NextAdd == CallAddVariation

SpecAdd == InitAdd /\ [][NextAdd]_vars

----------------------------------------------------------------------------
(* Spec: JUnitParser.parse, then ResultAggregator(mapping).aggregate *)

Init ==
    /\ junit_file \in Files
    /\ mapping \in Mappings
    /\ pc = "parse"
    /\ results = EmptyResults
    /\ aggregates = <<>>
    /\ unmatched = {}
    /\ idx = 0
    /\ ret = NoRet
    /\ IdleCase
    /\ IdleAdd
    /\ IdleMain
    /\ IdleCache
    /\ IdleUpload

CallParse ==
    /\ pc = "parse"
    /\ LET p == Parse(junit_file)
       IN  /\ results' = p.results
           /\ pc' = IF p.raised = "None" THEN "aggregate" ELSE p.raised
    /\ UNCHANGED <<junit_file, mapping, aggregates, unmatched, idx, ret>>
    /\ UNCHANGED <<caseVars, addVars, mainVars, cacheVars, upVars>>

\* One pass of the loop of aggregate
AggregateStep ==
    /\ pc = "aggregate"
    /\ idx < Len(results.tests)
    /\ LET st == AggregateOne([aggregates |-> aggregates, unmatched |-> unmatched],
                               results.tests[idx + 1], mapping)
       IN  /\ aggregates' = st.aggregates
           /\ unmatched' = st.unmatched
    /\ idx' = idx + 1
    /\ UNCHANGED <<junit_file, mapping, pc, results, ret>>
    /\ UNCHANGED <<caseVars, addVars, mainVars, cacheVars, upVars>>

\* The end of aggregate: matched = [agg.to_dict() ...]; return matched, list(unmatched)
AggregateReturn ==
    /\ pc = "aggregate"
    /\ idx = Len(results.tests)
    /\ \E listed \in ListsOf(unmatched) :
           ret' = [matched |-> [i \in 1..Len(aggregates) |-> ToDict(aggregates[i].agg)],
                   unmatched |-> listed]
    /\ pc' = "done"
    /\ UNCHANGED <<junit_file, mapping, results, aggregates, unmatched, idx>>
    /\ UNCHANGED <<caseVars, addVars, mainVars, cacheVars, upVars>>

Next == CallParse \/ AggregateStep \/ AggregateReturn

Spec == Init /\ [][Next]_vars

----------------------------------------------------------------------------
(* SpecMain: one run of the import tool's main *)

InitMain ==
    /\ env \in [JIRA_URL : EnvValues, JIRA_TOKEN : TokenValues]
    /\ args \in {Args(f, k, d) : f \in MainFiles, k \in ExecutionKeys, d \in BOOLEAN}
    /\ cache \in MainMappings
    /\ mainPc = "credentials"
    /\ execution_key = "unbound"
    /\ calls = <<>>
    /\ info_file = NoInfo
    /\ exit = "running"
    /\ IdleCase
    /\ IdleAdd
    /\ IdlePipe
    /\ IdleCache
    /\ IdleUpload

\* Mutant of MainCredentials: "and" in place of "or", so that one credential
\* is enough to go on
MainCredentialsEitherSet ==
    /\ mainPc = "credentials"
    /\ IF ~Truthy(env.JIRA_URL) /\ ~Truthy(env.JIRA_TOKEN)
       THEN mainPc' = "done" /\ exit' = "1"
       ELSE mainPc' = "steps" /\ UNCHANGED exit
    /\ UNCHANGED <<env, args, cache, execution_key, calls, info_file>>
    /\ UNCHANGED <<caseVars, addVars, pipeVars, cacheVars, upVars>>

\* main, lines 629-636: the credentials
MainCredentials ==
    /\ mainPc = "credentials"
    /\ IF ~Truthy(env.JIRA_URL) \/ ~Truthy(env.JIRA_TOKEN)
       THEN mainPc' = "done" /\ exit' = "1"
       ELSE mainPc' = "steps" /\ UNCHANGED exit
    /\ UNCHANGED <<env, args, cache, execution_key, calls, info_file>>
    /\ UNCHANGED <<caseVars, addVars, pipeVars, cacheVars, upVars>>

\* main, lines 638-675: steps 1 to 3 print their headings and fixed counts;
\* the statements that load the mapping, parse and aggregate are comments
MainSteps ==
    /\ mainPc = "steps"
    /\ mainPc' = "dry_run"
    /\ UNCHANGED <<env, args, cache, execution_key, calls, info_file, exit>>
    /\ UNCHANGED <<caseVars, addVars, pipeVars, cacheVars, upVars>>

\* main, lines 677-679
MainDryRun ==
    /\ mainPc = "dry_run"
    /\ IF args.dry_run
       THEN mainPc' = "done" /\ exit' = "0"
       ELSE mainPc' = "execution" /\ UNCHANGED exit
    /\ UNCHANGED <<env, args, cache, execution_key, calls, info_file>>
    /\ UNCHANGED <<caseVars, addVars, pipeVars, cacheVars, upVars>>

\* main, lines 685-698: without --execution-key the local execution_key is
\* read at line 698 before any assignment: UnboundLocalError ends the process
MainExecution ==
    /\ mainPc = "execution"
    /\ calls' = Append(calls, Call("create_summary",
                                   CreateSummary(args.test_environment, args.version,
                                                 args.execution_summary)))
    /\ IF Truthy(args.execution_key)
       THEN /\ execution_key' = args.execution_key
            /\ mainPc' = "import"
            /\ UNCHANGED exit
       ELSE /\ mainPc' = "UnboundLocalError"
            /\ exit' = "1"
            /\ UNCHANGED execution_key
    /\ UNCHANGED <<env, args, cache, info_file>>
    /\ UNCHANGED <<caseVars, addVars, pipeVars, cacheVars, upVars>>

\* main, lines 700-707: step 5 prints; the calls to Xray are comments
MainImport ==
    /\ mainPc = "import"
    /\ mainPc' = "save"
    /\ UNCHANGED <<env, args, cache, execution_key, calls, info_file, exit>>
    /\ UNCHANGED <<caseVars, addVars, pipeVars, cacheVars, upVars>>

\* main, lines 709-719, with ReportGenerator.save_execution_info
MainSaveInfo ==
    /\ mainPc = "save"
    /\ LET res == ParsedResults(5, 3, 1, 1, <<>>)
           info == ExecutionInfo(execution_key, env.JIRA_URL, args.test_environment,
                                 args.version, res, 5, 0)
       IN  /\ info_file' = [written |-> TRUE, info |-> info]
           /\ calls' = Append(calls, Call("save_execution_info", <<execution_key>>))
    /\ mainPc' = "success"
    /\ UNCHANGED <<env, args, cache, execution_key, exit>>
    /\ UNCHANGED <<caseVars, addVars, pipeVars, cacheVars, upVars>>

\* main, lines 721-726
MainSuccess ==
    /\ mainPc = "success"
    /\ mainPc' = "done"
    /\ exit' = "0"
    /\ UNCHANGED <<env, args, cache, execution_key, calls, info_file>>
    /\ UNCHANGED <<caseVars, addVars, pipeVars, cacheVars, upVars>>

NextMain ==
    \/ MainCredentials
    \/ MainSteps
    \/ MainDryRun
    \/ MainExecution
    \/ MainImport
    \/ MainSaveInfo
    \/ MainSuccess

SpecMain == InitMain /\ [][NextMain]_vars

----------------------------------------------------------------------------
(* SpecCache: saves and loads of one MappingCache *)

InitCache ==
    /\ mc_file \in FoundCacheFiles
    /\ mc_loaded = NotLoaded
    /\ mc_saved = NotSaved
    /\ mc_pc = "none"
    /\ IdleCase
    /\ IdleAdd
    /\ IdlePipe
    /\ IdleMain
    /\ IdleUpload

\* MappingCache.save(mapping): open(..., "w") fails on what cannot be opened
\* and leaves it as it is; otherwise the file holds the dump of the mapping
CacheSave ==
    /\ \E m \in Mappings : \E order \in ListsOf(DOMAIN m) :
           IF mc_file.exists /\ ~mc_file.readable
           THEN UNCHANGED <<mc_file, mc_saved>>
           ELSE /\ mc_file' = CacheFile(TRUE, TRUE, TRUE, Dump(m, order))
                /\ mc_saved' = [by_save |-> TRUE, mapping |-> m]
    /\ mc_pc' = "saved"
    /\ UNCHANGED mc_loaded
    /\ UNCHANGED <<caseVars, addVars, pipeVars, mainVars, upVars>>

\* MappingCache.load()
CacheLoad ==
    /\ mc_loaded' = CacheLoadResult(mc_file)
    /\ mc_pc' = "loaded"
    /\ UNCHANGED <<mc_file, mc_saved>>
    /\ UNCHANGED <<caseVars, addVars, pipeVars, mainVars, upVars>>

NextCache == CacheSave \/ CacheLoad

SpecCache == InitCache /\ [][NextCache]_vars

----------------------------------------------------------------------------
(* SpecUpload: one run of the upload tool's main *)

InitUpload ==
    /\ up_args \in UploadArgs
    /\ up_dir \in Dirs
    /\ up_pc = "validate"
    /\ versioning = FALSE
    /\ files = <<>>
    /\ up_i = 0
    /\ client = "None"
    /\ existed = FALSE
    /\ s3_calls = <<>>
    /\ raised = "None"
    /\ IdleCase
    /\ IdleAdd
    /\ IdlePipe
    /\ IdleMain
    /\ IdleCache

\* A call on the boto3 client and what follows it: the call is logged; when
\* it raised, main ends with the exception, otherwise it goes on at next
Made(call, error, next) ==
    /\ s3_calls' = Append(s3_calls, call)
    /\ IF error # "None"
       THEN raised' = error /\ up_pc' = "done"
       ELSE raised' = raised /\ up_pc' = next

Truthy_lifecycle == up_args.lifecycle.given /\ up_args.lifecycle.days # 0

\* main, the checks of the arguments
UploadValidate ==
    /\ up_pc = "validate"
    /\ LET e == Validate(up_args, up_dir)
       IN  IF e # "None"
           THEN raised' = e /\ up_pc' = "done"
           ELSE raised' = raised /\ up_pc' = "collect"
    /\ UNCHANGED <<up_args, up_dir, versioning, files, up_i, client, existed, s3_calls>>
    /\ UNCHANGED <<caseVars, addVars, pipeVars, mainVars, cacheVars>>

\* main, the locals: versioning is set by the file type, whatever the flag;
\* files is the set of the directory's files, listed in the order the set
\* gives; iterdir raises on what is not a directory
UploadCollect ==
    /\ up_pc = "collect"
    /\ versioning' = IF up_args.file_type = "movie" THEN TRUE
                     ELSE IF up_args.file_type = "stream" THEN FALSE
                     ELSE up_args.versioning
    /\ IF up_dir.kind # "dir"
       THEN raised' = "NotADirectoryError" /\ up_pc' = "done" /\ UNCHANGED files
       ELSE /\ files' \in ListsOf(GetAllFilesFromDir(up_dir))
            /\ raised' = raised
            /\ up_pc' = "connect"
    /\ UNCHANGED <<up_args, up_dir, up_i, client, existed, s3_calls>>
    /\ UNCHANGED <<caseVars, addVars, pipeVars, mainVars, cacheVars>>

\* S3Client.connect: boto3.client makes the client, or raises on an endpoint
\* URL it cannot take
UploadConnect ==
    /\ up_pc = "connect"
    /\ \E ok \in BOOLEAN :
           IF ok
           THEN client' = "connected" /\ up_pc' = "create" /\ raised' = raised
           ELSE client' = client /\ up_pc' = "done" /\ raised' = "ValueError"
    /\ UNCHANGED <<up_args, up_dir, versioning, files, up_i, existed, s3_calls>>
    /\ UNCHANGED <<caseVars, addVars, pipeVars, mainVars, cacheVars>>

\* Bucket(bucket_name, s3).create()
UploadCreate ==
    /\ up_pc = "create"
    /\ \E outcome \in CreateOutcomes :
           LET r == BucketCreate(outcome)
           IN  /\ existed' = r.existed
               /\ Made(S3Call("create_bucket", [Bucket |-> up_args.bucket_name], outcome),
                       r.raised, "versioning")
    /\ UNCHANGED <<up_args, up_dir, versioning, files, up_i, client>>
    /\ UNCHANGED <<caseVars, addVars, pipeVars, mainVars, cacheVars>>

\* if versioning: bucket.set_versioning("Enabled")
UploadVersioning ==
    /\ up_pc = "versioning"
    /\ IF versioning
       THEN \E outcome \in Outcomes :
                Made(S3Call("put_bucket_versioning",
                            [Bucket |-> up_args.bucket_name, Status |-> "Enabled"], outcome),
                     IF outcome = "ok" THEN "None" ELSE outcome, "lifecycle")
       ELSE up_pc' = "lifecycle" /\ UNCHANGED <<s3_calls, raised>>
    /\ UNCHANGED <<up_args, up_dir, versioning, files, up_i, client, existed>>
    /\ UNCHANGED <<caseVars, addVars, pipeVars, mainVars, cacheVars>>

\* if lifecycle and not versioning: ... elif lifecycle and versioning: ...
UploadLifecycle ==
    /\ up_pc = "lifecycle"
    /\ IF Truthy_lifecycle
       THEN \E outcome \in Outcomes :
                LET rule == IF ~versioning
                            THEN LifecycleRule("ScriptLifecycle", up_args.lifecycle.days,
                                               NoLifecycle)
                            ELSE LifecycleRule("ScriptLifecycle", up_args.lifecycle.days,
                                               up_args.lifecycle)
                IN  Made(S3Call("put_bucket_lifecycle_configuration",
                                [Bucket |-> up_args.bucket_name, Rule |-> rule], outcome),
                         IF outcome = "ok" THEN "None" ELSE outcome, "upload")
       ELSE up_pc' = "upload" /\ UNCHANGED <<s3_calls, raised>>
    /\ UNCHANGED <<up_args, up_dir, versioning, files, up_i, client, existed>>
    /\ UNCHANGED <<caseVars, addVars, pipeVars, mainVars, cacheVars>>

\* An upload_file call: the local file (where it lies and its name), the
\* key, and the JSON the file holds where the tool wrote it
UploadFileCall(where, name, key, json, outcome) ==
    S3Call("upload_file",
           [where |-> where, name |-> name, Bucket |-> up_args.bucket_name,
            Key |-> key, json |-> json],
           outcome)

\* for file in files: s3.upload_file(file.path, bucket_name, prefix + name)
UploadFile ==
    /\ up_pc = "upload"
    /\ up_i < Len(files)
    /\ up_i' = up_i + 1
    /\ \E outcome \in Outcomes :
           Made(UploadFileCall("dir_path", files[up_i + 1],
                               <<up_args.prefix, files[up_i + 1]>>, "none", outcome),
                IF outcome = "ok" THEN "None" ELSE outcome, "upload")
    /\ UNCHANGED <<up_args, up_dir, versioning, files, client, existed>>
    /\ UNCHANGED <<caseVars, addVars, pipeVars, mainVars, cacheVars>>

\* Mutant of UploadMeta: the meta sidecar is made whatever the file type
UploadMetaAnyType ==
    /\ up_pc = "upload"
    /\ up_i = Len(files)
    /\ \E outcome \in Outcomes :
           Made(UploadFileCall("cwd", "meta.json",
                               <<up_args.prefix, "_", "meta.json">>,
                               BuildMetadata(up_args.prefix, Len(files)), outcome),
                IF outcome = "ok" THEN "None" ELSE outcome,
                IF up_args.file_type = "stream" THEN "index" ELSE "close")
    /\ UNCHANGED <<up_args, up_dir, versioning, files, up_i, client, existed>>
    /\ UNCHANGED <<caseVars, addVars, pipeVars, mainVars, cacheVars>>

\* The loop is through; of a stream the meta sidecar is built, written to
\* meta.json in the working directory and uploaded
UploadMeta ==
    /\ up_pc = "upload"
    /\ up_i = Len(files)
    /\ IF up_args.file_type = "stream"
       THEN \E outcome \in Outcomes :
                Made(UploadFileCall("cwd", "meta.json",
                                    <<up_args.prefix, "_", "meta.json">>,
                                    BuildMetadata(up_args.prefix, Len(files)), outcome),
                     IF outcome = "ok" THEN "None" ELSE outcome, "index")
       ELSE up_pc' = "close" /\ UNCHANGED <<s3_calls, raised>>
    /\ UNCHANGED <<up_args, up_dir, versioning, files, up_i, client, existed>>
    /\ UNCHANGED <<caseVars, addVars, pipeVars, mainVars, cacheVars>>

\* Of a stream the index sidecar: build_index sorts files, the index is
\* written to index.json in the working directory and uploaded
UploadIndex ==
    /\ up_pc = "index"
    /\ files' = SortedByName(files)
    /\ \E outcome \in Outcomes :
           Made(UploadFileCall("cwd", "index.json",
                               <<up_args.prefix, "_", "index.json">>,
                               BuildIndex(up_args.prefix, SortedByName(files)), outcome),
                IF outcome = "ok" THEN "None" ELSE outcome, "close")
    /\ UNCHANGED <<up_args, up_dir, versioning, up_i, client, existed>>
    /\ UNCHANGED <<caseVars, addVars, pipeVars, mainVars, cacheVars>>

\* client.close(): S3Client.close closes the boto3 client it holds
UploadClose ==
    /\ up_pc = "close"
    /\ IF client # "None"
       THEN /\ s3_calls' = Append(s3_calls, S3Call("close", [Bucket |-> <<>>], "ok"))
            /\ client' = "None"
       ELSE UNCHANGED <<s3_calls, client>>
    /\ up_pc' = "done"
    /\ UNCHANGED <<up_args, up_dir, versioning, files, up_i, existed, raised>>
    /\ UNCHANGED <<caseVars, addVars, pipeVars, mainVars, cacheVars>>

NextUpload ==
    \/ UploadValidate
    \/ UploadCollect
    \/ UploadConnect
    \/ UploadCreate
    \/ UploadVersioning
    \/ UploadLifecycle
    \/ UploadFile
    \/ UploadMeta
    \/ UploadIndex
    \/ UploadClose

SpecUpload == InitUpload /\ [][NextUpload]_vars

----------------------------------------------------------------------------
(* Helpers of the properties: written apart from the operators of the model *)

Range(seq) == {seq[i] : i \in 1..Len(seq)}

RECURSIVE SumOver(_, _)
SumOver(S, f) ==
    IF S = {} THEN 0
    ELSE LET x == CHOOSE y \in S : TRUE IN f[x] + SumOver(S \ {x}, f)

CountWhere(seq, Test(_)) == Cardinality({i \in 1..Len(seq) : Test(seq[i])})

\* The status the priority order FAIL > TODO > CONDITIONALPASS > PASS gives a
\* set of statuses
PriorityStatus(S) ==
    IF FAIL \in S THEN FAIL
    ELSE IF TODO \in S THEN TODO
    ELSE IF CONDITIONALPASS \in S THEN CONDITIONALPASS
    ELSE PASS

\* The distinct names of a list of records, in first-encounter order
RECURSIVE FirstSeen(_)
FirstSeen(names) ==
    IF names = <<>> THEN <<>>
    ELSE LET front == FirstSeen(SubSeq(names, 1, Len(names) - 1))
             last == names[Len(names)]
         IN  IF last \in Range(front) THEN front ELSE Append(front, last)

NamesOf(tests) == [i \in 1..Len(tests) |-> tests[i].name]

IsMapped(t) == t.name \in DOMAIN mapping

Parsed == pc \in {"aggregate", "done"}

----------------------------------------------------------------------------
(* C1 *)

\* C1: after any sequence of add_variation calls on an AggregatedResult that
\* started as PASS, its status is FAIL if any variation is FAIL, else TODO if
\* any is TODO, else CONDITIONALPASS if any is CONDITIONALPASS, else PASS: a
\* function of the set of the variations' statuses, so the same for every
\* order of them, and FAIL once any variation was FAIL.
C1_StatusIsPriority ==
    /\ [](agg.status =
             PriorityStatus({agg.variations[i].status : i \in 1..Len(agg.variations)}))
    /\ [][agg.status = FAIL => agg'.status = FAIL]_vars

\* A FAIL variation came first and a TODO and a CONDITIONALPASS followed
C1_Witness ==
    /\ Len(agg.variations) >= 3
    /\ agg.variations[1].status = FAIL
    /\ agg.variations[2].status = TODO
    /\ agg.variations[3].status = CONDITIONALPASS
    /\ agg.status = FAIL

----------------------------------------------------------------------------
(* C2 *)

KeyOf(t) == mapping[t.name]

\* The body of C2 as stated: matched entries have distinct test_keys, and each
\* entry lists every record whose clean name maps to the entry's key
C2_OnePerKey ==
    /\ \A i, j \in 1..Len(ret.matched) :
           ret.matched[i].test_key = ret.matched[j].test_key => i = j
    /\ \A i \in 1..Len(ret.matched) :
           Len(ret.matched[i].comment.lines) =
               CountWhere(results.tests,
                          LAMBDA t : IsMapped(t) /\ KeyOf(t) = ret.matched[i].test_key)

\* C2 as stated: for every mapping, injective or not, aggregate yields one
\* entry per test key
C2_Original == pc = "done" => C2_OnePerKey

\* The mapping sends the mapped clean names of the parsed results to distinct keys
InjectiveOnResults ==
    \A t, u \in Range(results.tests) :
        IsMapped(t) /\ IsMapped(u) /\ KeyOf(t) = KeyOf(u) => t.name = u.name

\* C2 (amended): aggregate yields one entry per mapped clean name, holding
\* every record of that name in encounter order under the key the name maps
\* to; the entries carry distinct test_keys, one entry per key, when the
\* mapping sends the mapped names of the results to distinct keys.
C2_OnePerName ==
    pc = "done" =>
        /\ Len(ret.matched) = Len(aggregates)
        /\ \A i, j \in 1..Len(aggregates) :
               aggregates[i].name = aggregates[j].name => i = j
        /\ \A i \in 1..Len(aggregates) :
               /\ ret.matched[i].test_key = mapping[aggregates[i].name]
               /\ [k \in 1..Len(ret.matched[i].comment.lines) |->
                      ret.matched[i].comment.lines[k].full_name]
                  = [k \in 1..CountWhere(results.tests,
                                         LAMBDA t : t.name = aggregates[i].name) |->
                      SelectSeq(results.tests,
                                LAMBDA t : t.name = aggregates[i].name)[k].full_name]
        /\ InjectiveOnResults => C2_OnePerKey

\* Two names under distinct keys were matched, one of them with two variations
C2_Witness ==
    /\ pc = "done"
    /\ Len(ret.matched) = 2
    /\ ret.matched[1].test_key # ret.matched[2].test_key
    /\ ret.matched[1].comment.heading = 2

----------------------------------------------------------------------------
(* C3 *)

\* C3: when aggregate has returned, the variation counts of the matched
\* entries plus the number of records whose name is in the unmatched list add
\* up to ParsedResults.total.
C3_EveryRecordOnce ==
    pc = "done" =>
        SumOver(1..Len(ret.matched),
                [i \in 1..Len(ret.matched) |-> Len(ret.matched[i].comment.lines)])
        + CountWhere(results.tests, LAMBDA t : t.name \in Range(ret.unmatched))
        = results.total

\* Three records: two matched ones of one name and an unmatched one
C3_Witness ==
    /\ pc = "done"
    /\ results.total = 3
    /\ Len(ret.matched) = 1
    /\ ret.matched[1].comment.heading = 2
    /\ Len(ret.unmatched) = 1

----------------------------------------------------------------------------
(* C4 *)

MappedNames == FirstSeen(NamesOf(SelectSeq(results.tests, IsMapped)))
UnmappedNames == {t.name : t \in {u \in Range(results.tests) : ~IsMapped(u)}}

C4_Returned ==
    pc = "done" =>
        /\ Len(ret.matched) = Len(MappedNames)
        /\ \A i \in 1..Len(MappedNames) :
               /\ aggregates[i].name = MappedNames[i]
               /\ ret.matched[i].test_key = mapping[MappedNames[i]]
        /\ Range(ret.unmatched) = UnmappedNames
        /\ Len(ret.unmatched) = Cardinality(UnmappedNames)
        /\ {aggregates[i].name : i \in 1..Len(aggregates)} \cap Range(ret.unmatched) = {}

C4_AbsentTouchesNothing ==
    (pc = "aggregate" /\ idx' = idx + 1 /\ ~IsMapped(results.tests[idx + 1]))
        => aggregates' = aggregates

\* C4: aggregate returns one matched entry per distinct mapped clean name, in
\* first-encounter order, and an unmatched list holding each distinct
\* unmapped clean name once; no name is on both sides; and a pass of the loop
\* over a record whose name is not in the mapping leaves the aggregates as
\* they were.
C4_MatchedAndUnmatched == [](C4_Returned) /\ [][C4_AbsentTouchesNothing]_vars

\* b was met before a, then b again, both mapped; nothing unmatched
C4_Witness ==
    /\ pc = "done"
    /\ Len(results.tests) = 3
    /\ results.tests[1].name = <<"b">>
    /\ results.tests[2].name = <<"a">>
    /\ results.tests[3].name = <<"b">>
    /\ Len(ret.matched) = 2
    /\ ret.matched[1].test_key = mapping[<<"b">>]

\* An unmapped record was consumed while an aggregate existed, and the
\* unmatched list has a name
C4_WitnessUnmatched ==
    /\ pc = "done"
    /\ Len(ret.unmatched) = 1
    /\ Len(ret.matched) = 1
    /\ ~IsMapped(results.tests[2])
    /\ IsMapped(results.tests[1])

----------------------------------------------------------------------------
(* C5 *)

C5_Counters ==
    /\ results.passed + results.failed + results.skipped = results.total
    /\ results.total = Len(results.tests)
    /\ results.passed =
           CountWhere(results.tests, LAMBDA t : t.status \in {PASS, CONDITIONALPASS})
    /\ results.failed = CountWhere(results.tests, LAMBDA t : t.status = FAIL)
    /\ results.skipped = CountWhere(results.tests, LAMBDA t : t.status = TODO)

IsTestcase(e) == e.tag = "testcase"

\* C5 as stated: total is the number of testcase elements of the document, at
\* any nesting depth
C5_Original ==
    Parsed =>
        /\ C5_Counters
        /\ results.total =
               CountWhere(<<junit_file.root>> \o junit_file.below, IsTestcase)

\* C5 (amended): after parse, passed + failed + skipped = total, total is the
\* length of tests and the number of testcase elements below the document's
\* root element (at any depth; a root that is itself a testcase is not counted),
\* passed counts the PASS and CONDITIONALPASS records, failed the FAIL records
\* and skipped the TODO records.
C5_CountsBelowRoot ==
    Parsed =>
        /\ C5_Counters
        /\ results.total = CountWhere(junit_file.below, IsTestcase)

\* A document with three elements below the root, two of them testcases: an
\* expected failure, counted as passed, and a skip
C5_Witness ==
    /\ Parsed
    /\ results.total = 2
    /\ Len(junit_file.below) = 3
    /\ results.passed = 1
    /\ results.skipped = 1
    /\ \E i \in 1..2 : results.tests[i].status = CONDITIONALPASS

----------------------------------------------------------------------------
(* C6 *)

HasKid(tc, tag) == \E i \in 1..Len(tc.kids) : tc.kids[i].tag = tag

IsXfailType(kid) == Contains(Lower(kid.type), S_xfail) /\ ~Contains(Lower(kid.type), S_skip)

IsFirstSkip(tc, i) ==
    /\ tc.kids[i].tag = "skipped"
    /\ \A j \in 1..(i - 1) : tc.kids[j].tag # "skipped"

\* C6 as stated (the type compared without regard to case, as the code does):
\* CONDITIONALPASS when some skip child has an xfail type
C6_Original ==
    casePc = "returned" =>
        /\ result.status \in Statuses
        /\ result.status =
             IF HasKid(testcase, "failure") \/ HasKid(testcase, "error") THEN FAIL
             ELSE IF \E i \in 1..Len(testcase.kids) :
                        testcase.kids[i].tag = "skipped" /\ IsXfailType(testcase.kids[i])
             THEN CONDITIONALPASS
             ELSE IF HasKid(testcase, "skipped") THEN TODO
             ELSE PASS
        /\ result.status = PASS => result.comment = <<>>

\* C6 (amended): the status is FAIL when a failure or an error child is
\* present, whatever skip children there are; otherwise CONDITIONALPASS when
\* the first skip child's type (lower-cased) contains "xfail" and not "skip";
\* otherwise TODO when a skip child is present; otherwise PASS with empty
\* detail.  It is always one of the four statuses.
C6_FirstSkipDecides ==
    casePc = "returned" =>
        /\ result.status \in Statuses
        /\ result.status =
             IF HasKid(testcase, "failure") \/ HasKid(testcase, "error") THEN FAIL
             ELSE IF \E i \in 1..Len(testcase.kids) :
                        IsFirstSkip(testcase, i) /\ IsXfailType(testcase.kids[i])
             THEN CONDITIONALPASS
             ELSE IF HasKid(testcase, "skipped") THEN TODO
             ELSE PASS
        /\ result.status = PASS => result.comment = <<>>

\* A testcase with two skip children, an xfail one first and a plain skip after
C6_Witness ==
    /\ casePc = "returned"
    /\ Len(testcase.kids) = 2
    /\ testcase.kids[1].tag = "skipped" /\ IsXfailType(testcase.kids[1])
    /\ testcase.kids[2].tag = "skipped" /\ ~IsXfailType(testcase.kids[2])
    /\ result.status = CONDITIONALPASS

----------------------------------------------------------------------------
(* Helpers of the properties of main: what the run's inputs give when the   *)
(* parser and the aggregator are applied to them                            *)

CredentialsSet == Truthy(env.JIRA_URL) /\ Truthy(env.JIRA_TOKEN)

Ended == exit # "running"

RunParse == Parse(args.junit_xml)

RunAggregate ==
    AggregateLoop(RunParse.results.tests, [aggregates |-> <<>>, unmatched |-> {}], cache)

Called(fn) == \E i \in 1..Len(calls) : calls[i].fn = fn

CountCalls(fn) == Cardinality({i \in 1..Len(calls) : calls[i].fn = fn})

CalledWith(fn, key) == \E i \in 1..Len(calls) : calls[i].fn = fn /\ calls[i].arg[1] = key

NoRemoteMutation ==
    /\ ~Called("create_test_execution")
    /\ ~Called("add_tests_to_execution")
    /\ ~Called("import_execution_results")

\* The run has credentials and a JUnit file that parses
RunnableInput == CredentialsSet /\ RunParse.raised = "None"

----------------------------------------------------------------------------
(* C7 *)

\* C7: a dry run (with credentials, a mapping and a JUnit file that parses)
\* calls the parser and the aggregator, makes no remote mutation, writes no
\* run-info file and exits 0.
C7_DryRunParsesAndStops ==
    (Ended /\ RunnableInput /\ cache # <<>> /\ args.dry_run) =>
        /\ exit = "0"
        /\ Called("JUnitParser.parse")
        /\ Called("ResultAggregator.aggregate")
        /\ NoRemoteMutation
        /\ ~info_file.written

----------------------------------------------------------------------------
(* C8 *)

\* C8: a run that is not a dry run and has a match ends with exit status 0;
\* without --execution-key it creates one execution record and uses the key
\* that call returned to attach the tests, import the results and write the
\* run-info record; with --execution-key it creates none and uses the given key.
C8_ExecutionKeyUsed ==
    (Ended /\ RunnableInput /\ ~args.dry_run /\ Len(RunAggregate.aggregates) > 0) =>
        /\ exit = "0"
        /\ info_file.written
        /\ CalledWith("add_tests_to_execution", info_file.info.execution_key)
        /\ CalledWith("import_execution_results", info_file.info.execution_key)
        /\ IF Truthy(args.execution_key)
           THEN /\ ~Called("create_test_execution")
                /\ info_file.info.execution_key = args.execution_key
           ELSE /\ CountCalls("create_test_execution") = 1
                /\ CalledWith("create_test_execution", info_file.info.execution_key)

----------------------------------------------------------------------------
(* C9 *)

\* C9: the run-info record written by a run holds the counters of parsing the
\* run's JUnit file and the numbers of matched groups and of unmatched names
\* of aggregating them against the run's mapping.
C9_RunInfoIsSnapshot ==
    info_file.written =>
        /\ info_file.info.results.total = RunParse.results.total
        /\ info_file.info.results.passed = RunParse.results.passed
        /\ info_file.info.results.failed = RunParse.results.failed
        /\ info_file.info.results.skipped = RunParse.results.skipped
        /\ info_file.info.results.matched = Len(RunAggregate.aggregates)
        /\ info_file.info.results.unmatched = Cardinality(RunAggregate.unmatched)

----------------------------------------------------------------------------
(* C10 *)

\* C10: a run that is not a dry run and whose aggregation matches nothing
\* ends with a non-zero exit status, no execution record, no import and no
\* run-info file; a run with a match and unmatched names ends with status 0.
C10_NoMatchIsFatal ==
    (Ended /\ RunnableInput /\ ~args.dry_run) =>
        /\ Len(RunAggregate.aggregates) = 0 =>
               /\ exit # "0"
               /\ ~Called("create_test_execution")
               /\ ~Called("import_execution_results")
               /\ ~info_file.written
        /\ (Len(RunAggregate.aggregates) > 0 /\ RunAggregate.unmatched # {}) =>
               exit = "0"

----------------------------------------------------------------------------
(* C11 *)

\* C11: when the JUnit file of a run with credentials does not exist,
\* JUnitParser.parse raises FileNotFoundError for it and returns no results,
\* and main ends with a non-zero exit status, no remote mutation and no
\* run-info file.
C11_MissingFileAborts ==
    (Ended /\ CredentialsSet /\ ~args.junit_xml.exists) =>
        /\ RunParse.raised = "FileNotFoundError"
        /\ RunParse.results.tests = <<>>
        /\ exit # "0"
        /\ NoRemoteMutation
        /\ ~info_file.written

----------------------------------------------------------------------------
(* C12 *)

\* C12: when JIRA_URL or JIRA_TOKEN is unset or empty, main makes no call to
\* any component, binds no execution key, writes no run-info file and ends
\* right after the credentials check with exit status 1, dry run or not.
C12_NoCredentialsNoRun ==
    ~CredentialsSet =>
        /\ mainPc \in {"credentials", "done"}
        /\ calls = <<>>
        /\ execution_key = "unbound"
        /\ ~info_file.written
        /\ mainPc = "done" => exit = "1"
        /\ mainPc = "credentials" => exit = "running"

\* A run with a URL and an empty token, an execution key and no dry run has ended
C12_Witness ==
    /\ mainPc = "done"
    /\ exit = "1"
    /\ Truthy(env.JIRA_URL)
    /\ env.JIRA_TOKEN = ""
    /\ Truthy(args.execution_key)
    /\ ~args.dry_run

----------------------------------------------------------------------------
(* C13 *)

\* The file holds something other than the text of a JSON object of strings
CorruptCacheFile ==
    mc_file.exists /\ (~mc_file.readable \/ ~mc_file.utf8 \/ ~IsObjectText(mc_file.tokens))

\* C13: MappingCache.load raises nothing and returns a mapping: the empty one
\* for a missing file and for a file with corrupt content, and the mapping m
\* for a file written by save(m).
C13_LoadNeverFails ==
    mc_pc = "loaded" =>
        /\ mc_loaded.raised = "None"
        /\ mc_loaded.kind = "dict"
        /\ (~mc_file.exists \/ CorruptCacheFile) => mc_loaded.value = <<>>
        /\ mc_saved.by_save => mc_loaded.value = mc_saved.mapping

----------------------------------------------------------------------------
(* C14 .. C17: the upload tool *)

CallIdx == 1..Len(s3_calls)

IsOp(i, op) == s3_calls[i].op = op

IsDataUpload(i) == IsOp(i, "upload_file") /\ s3_calls[i].arg.where = "dir_path"

IsSidecar(i, name) ==
    /\ IsOp(i, "upload_file")
    /\ s3_calls[i].arg.where = "cwd"
    /\ s3_calls[i].arg.name = name

EnablesVersioning(i) ==
    IsOp(i, "put_bucket_versioning") /\ s3_calls[i].arg.Status = "Enabled"

\* create_bucket was called and the bucket is there: made, or owned already
BucketThere ==
    \E i \in CallIdx :
        IsOp(i, "create_bucket") /\ s3_calls[i].outcome \in {"ok", "BucketAlreadyOwnedByYou"}

\* C14: versioning follows the --versioning flag for either file type: without
\* the flag no versioning call is made, and with it, once the bucket is there
\* and main is past its versioning step, put_bucket_versioning with status
\* Enabled was called.
C14_VersioningFollowsFlag ==
    /\ ~up_args.versioning => ~\E i \in CallIdx : IsOp(i, "put_bucket_versioning")
    /\ (up_args.versioning /\ BucketThere /\ up_pc # "versioning") =>
           \E i \in CallIdx : EnablesVersioning(i)

\* C15: of create_bucket's errors only BucketAlreadyOwnedByYou is benign: after
\* it existed is true and the run goes on to configuration and uploads; any
\* other client error ends the run with that error, existed false and no call
\* after create_bucket; after a success existed is false.
C15_OnlyOwnedIsBenign ==
    \A i \in CallIdx : IsOp(i, "create_bucket") =>
        /\ s3_calls[i].outcome = "ok" => ~existed
        /\ s3_calls[i].outcome = "BucketAlreadyOwnedByYou" =>
               /\ existed
               /\ Len(s3_calls) = i =>
                      raised = "None" /\ up_pc \in {"versioning", "lifecycle", "upload"}
        /\ s3_calls[i].outcome \notin {"ok", "BucketAlreadyOwnedByYou"} =>
               /\ ~existed
               /\ raised = "ClientError"
               /\ up_pc = "done"
               /\ Len(s3_calls) = i

\* A run over a bucket owned already that went on to upload a data file and
\* ended well
C15_Witness ==
    /\ up_pc = "done" /\ raised = "None" /\ existed
    /\ \E i, j \in CallIdx :
           /\ i < j
           /\ IsOp(i, "create_bucket")
           /\ s3_calls[i].outcome = "BucketAlreadyOwnedByYou"
           /\ IsDataUpload(j)

\* The place of a call in main's order of storage calls
Rank(i) ==
    CASE IsOp(i, "create_bucket") -> 1
      [] IsOp(i, "put_bucket_versioning") -> 2
      [] IsOp(i, "put_bucket_lifecycle_configuration") -> 2
      [] IsDataUpload(i) -> 3
      [] IsSidecar(i, "meta.json") -> 4
      [] IsSidecar(i, "index.json") -> 5
      [] IsOp(i, "close") -> 6
      [] OTHER -> 0

DataUploadsBefore(i) == {j \in 1..(i - 1) : IsDataUpload(j)}

\* C16: the storage calls of a run are in order: create_bucket first, then
\* versioning and lifecycle configuration, then the data files, then meta,
\* then index, then close; bucket creation, each sidecar and close happen at
\* most once; sidecars are uploaded of a stream only, meta after every data
\* file with file_count the number of data files uploaded, index after meta;
\* close is the last call.
C16_CallsInOrder ==
    /\ \A i \in CallIdx : Rank(i) # 0
    /\ s3_calls # <<>> => IsOp(1, "create_bucket")
    /\ \A i, j \in CallIdx : i < j =>
           /\ Rank(i) <= Rank(j)
           /\ Rank(i) \in {1, 4, 5, 6} => Rank(i) < Rank(j)
    /\ \A i \in CallIdx :
           /\ (IsSidecar(i, "meta.json") \/ IsSidecar(i, "index.json")) =>
                  up_args.file_type = "stream"
           /\ IsSidecar(i, "meta.json") =>
                  /\ s3_calls[i].arg.json.file_count = Cardinality(DataUploadsBefore(i))
                  /\ {s3_calls[j].arg.name : j \in DataUploadsBefore(i)}
                         = {e.name : e \in {x \in up_dir.entries :
                                                x.is_file /\ x.name # ".DS_Store"}}
                  /\ \A j \in DataUploadsBefore(i) : s3_calls[j].outcome = "ok"
           /\ IsSidecar(i, "index.json") =>
                  \E j \in 1..(i - 1) :
                      IsSidecar(j, "meta.json") /\ s3_calls[j].outcome = "ok"
           /\ IsOp(i, "close") =>
                  /\ i = Len(s3_calls)
                  /\ \A j \in 1..(i - 1) :
                         s3_calls[j].outcome \in {"ok", "BucketAlreadyOwnedByYou"}
    /\ (up_pc = "done" /\ raised = "None" /\ up_args.file_type = "movie") =>
           ~\E i \in CallIdx : IsOp(i, "upload_file") /\ s3_calls[i].arg.where = "cwd"

\* A stream run that ended well: a lifecycle rule, two data files, meta,
\* index and close
C16_Witness ==
    /\ up_pc = "done" /\ raised = "None" /\ up_args.file_type = "stream"
    /\ Len(s3_calls) = 7
    /\ IsOp(2, "put_bucket_lifecycle_configuration")
    /\ IsDataUpload(3) /\ IsDataUpload(4)
    /\ IsSidecar(5, "meta.json") /\ s3_calls[5].arg.json.file_count = 2
    /\ IsSidecar(6, "index.json")
    /\ IsOp(7, "close")

\* The arguments main is to reject
InvalidArguments ==
    \/ up_dir.kind = "missing"
    \/ Len(up_args.bucket_name) < 3
    \/ up_args.lifecycle.given /\ up_args.lifecycle.days <= 0

\* C17: with a missing directory, a bucket name of fewer than 3 characters or
\* lifecycle days given and not positive, main ends with an error before any
\* client is connected or any storage call made; a lifecycle rule is put only
\* when positive days were given, and it has a noncurrent-version expiration
\* exactly when versioning was enabled on the bucket in that run.
C17_InvalidArgsTouchNothing ==
    /\ (InvalidArguments /\ up_pc # "idle") =>
           /\ up_pc \in {"validate", "done"}
           /\ up_pc = "done" => raised \in {"FileNotFoundError", "ValueError"}
           /\ client = "None"
           /\ s3_calls = <<>>
    /\ \A i \in CallIdx : IsOp(i, "put_bucket_lifecycle_configuration") =>
           /\ up_args.lifecycle.given
           /\ up_args.lifecycle.days > 0
           /\ s3_calls[i].arg.Rule.Days = up_args.lifecycle.days
           /\ s3_calls[i].arg.Rule.Noncurrent.present
                  <=> \E j \in 1..(i - 1) : EnablesVersioning(j)

\* A run with a bucket name of 2 characters, all else valid, that ended with
\* ValueError
C17_Witness ==
    /\ up_pc = "done" /\ raised = "ValueError"
    /\ Len(up_args.bucket_name) = 2
    /\ up_dir.kind = "dir"
    /\ ~up_args.lifecycle.given
    /\ client = "None" /\ s3_calls = <<>>

====
